---- MODULE Spec2Model ----
(***************************************************************************)
(* Model of winequalitycode.py: a linear pipeline over one in-memory       *)
(* table (load -> explore -> clean -> histogram -> cluster -> regress).    *)
(* A table is [cols, rows]; cols is the column order, a row is             *)
(* [idx, cells] where idx is the pandas index label and cells maps every   *)
(* column name to a cell.  A cell is Num(n), Str(s) or NaN.                *)
(***************************************************************************)
EXTENDS Integers, Sequences, FiniteSets, TLC

VARIABLES
    pc,              \* position of the run in the script
    red_csv,         \* content of 'winequality-red.csv'
    white_csv,       \* content of 'winequality-white.csv'
    data,            \* the working table `data`
    arg,             \* the table the function now running was called with
    missing_values,  \* None or Some(per-column count of missing cells)
    duplicate_count, \* None or Some(number of duplicated rows)
    silhouette_avg,  \* None or Some(the labelling the score was computed on)
    k,               \* loop variable of the elbow sweep
    sse,             \* list of inertia values appended by the sweep
    fits,            \* n_clusters of every KMeans fit done so far, in order
    train,           \* row positions of the training subset
    test,            \* row positions of the test subset
    mse,             \* None or Some(what the error was evaluated on)
    saved,           \* plt.savefig calls so far: file name and table plotted
    stdout,          \* print calls so far
    ran,             \* the steps started so far, in order
    failedAt         \* "none", or the step at which an exception escaped

vars == <<pc, red_csv, white_csv, data, arg, missing_values, duplicate_count,
          silhouette_avg, k, sse, fits, train, test, mse, saved, stdout,
          ran, failedAt>>

(* ---------------------------- bounds ---------------------------------- *)

\* number of distinct alcohol readings in a generated input file
NVals == 3
\* longest table handed directly to a single function
MaxUnitRows == 3
\* largest row count of the generated clean tables handed to the split
MaxSplitRows == 9

(* ------------------------ program constants --------------------------- *)

features == <<"fixed acidity", "volatile acidity", "citric acid",
              "residual sugar", "chlorides", "free sulfur dioxide",
              "total sulfur dioxide", "density", "pH", "sulphates",
              "alcohol">>
target == "quality"
n_clusters == 3
\* range(1, 11): first value and exclusive end
SweepFrom == 1
SweepStop == 11
\* test_size = 0.3 as the fraction TestNum / TestDen
TestNum == 3
TestDen == 10

(* ----------------------------- cells ---------------------------------- *)

None == <<>>
Some(v) == <<v>>

Num(n) == [num |-> n]
Str(s) == [str |-> s]
NaN == [nan |-> TRUE]
isnull(c) == "nan" \in DOMAIN c

Range(s) == {s[i] : i \in DOMAIN s}

EmptyTable == [cols |-> <<>>, rows |-> <<>>]

\* the rows of s at the positions in keep, in their original order
RECURSIVE Filter(_, _)
Filter(s, keep) ==
    IF s = <<>> THEN <<>>
    ELSE LET n == Len(s)
             front == Filter(SubSeq(s, 1, n - 1), keep)
         IN  IF n \in keep THEN Append(front, s[n]) ELSE front

(* ------------------------- pandas operations -------------------------- *)

\* DataFrame.isnull().sum(): per column, the number of missing cells
isnull_sum(t) ==
    [c \in Range(t.cols) |->
        Cardinality({i \in DOMAIN t.rows : isnull(t.rows[i].cells[c])})]

\* DataFrame.duplicated(): TRUE for a row equal in every column to an
\* earlier row (the index label is not compared)
duplicated(t) ==
    [i \in DOMAIN t.rows |->
        \E j \in 1..(i - 1) : t.rows[j].cells = t.rows[i].cells]

duplicated_sum(t) ==
    LET dup == duplicated(t)
    IN  Cardinality({i \in DOMAIN t.rows : dup[i]})

\* dropna(axis=1): drops the columns that hold a missing cell, not the rows
dropna_axis1(t) ==
    LET full == SelectSeq(t.cols, LAMBDA c : \A i \in DOMAIN t.rows : ~isnull(t.rows[i].cells[c]))
    IN  [cols |-> full,
         rows |-> [i \in DOMAIN t.rows |->
                     [idx |-> t.rows[i].idx,
                      cells |-> [c \in Range(full) |-> t.rows[i].cells[c]]]]]

\* DataFrame.dropna(): drop every row with a missing cell in any column
dropna(t) ==
    [t EXCEPT !.rows =
        Filter(t.rows, {i \in DOMAIN t.rows :
                          \A c \in Range(t.cols) : ~isnull(t.rows[i].cells[c])})]

\* drop_duplicates(keep=False): drops every instance of a repeated row
drop_duplicates_keep_none(t) ==
    [t EXCEPT !.rows =
        Filter(t.rows, {i \in DOMAIN t.rows :
                          \A j \in DOMAIN t.rows : t.rows[j].cells = t.rows[i].cells => j = i})]

\* DataFrame.drop_duplicates(): keep the first instance of every row
drop_duplicates(t) ==
    LET dup == duplicated(t)
    IN  [t EXCEPT !.rows = Filter(t.rows, {i \in DOMAIN t.rows : ~dup[i]})]

\* df[col] = values: overwrite the column, or append it as the last column;
\* values gives the new cell of every row position
assign(t, col, values) ==
    [cols |-> IF col \in Range(t.cols) THEN t.cols ELSE Append(t.cols, col),
     rows |-> [i \in DOMAIN t.rows |->
                 [idx |-> t.rows[i].idx,
                  cells |-> [c \in Range(t.cols) \cup {col} |->
                               IF c = col THEN values[i] ELSE t.rows[i].cells[c]]]]]

\* a scalar on the right-hand side is broadcast to every row
broadcast(t, v) == [i \in DOMAIN t.rows |-> v]

\* pd.read_csv: the lines of the file under a fresh 0..n-1 index
read_csv(f) ==
    [cols |-> f.cols,
     rows |-> [i \in DOMAIN f.lines |-> [idx |-> i - 1, cells |-> f.lines[i]]]]

\* pd.concat(join='inner'): only the columns both frames have
concat_inner(a, b) ==
    LET cols == SelectSeq(a.cols, LAMBDA c : c \in Range(b.cols))
        narrow(r) == [idx |-> r.idx, cells |-> [c \in Range(cols) |-> r.cells[c]]]
    IN  [cols |-> cols,
         rows |-> [i \in DOMAIN a.rows |-> narrow(a.rows[i])]
                  \o [i \in DOMAIN b.rows |-> narrow(b.rows[i])]]

\* pd.concat([a, b], axis=0): outer join of the columns (the columns of a,
\* then those only b has), rows of a then rows of b with their own index
\* labels; a cell of a column the row's frame lacks is missing
concat(a, b) ==
    LET cols == a.cols \o SelectSeq(b.cols, LAMBDA c : c \notin Range(a.cols))
        widen(r) == [idx |-> r.idx,
                     cells |-> [c \in Range(cols) |->
                                  IF c \in DOMAIN r.cells THEN r.cells[c] ELSE NaN]]
    IN  [cols |-> cols,
         rows |-> [i \in DOMAIN a.rows |-> widen(a.rows[i])]
                  \o [i \in DOMAIN b.rows |-> widen(b.rows[i])]]

\* data[columns]: the named columns only
select(t, columns) ==
    [cols |-> columns,
     rows |-> [i \in DOMAIN t.rows |->
                 [idx |-> t.rows[i].idx,
                  cells |-> [c \in Range(columns) |-> t.rows[i].cells[c]]]]]

(* ------------------------- script functions --------------------------- *)

\* both frames tagged 'red'
combine_one_tag(rf, wf) ==
    LET red_wine == read_csv(rf)
        white_wine == read_csv(wf)
    IN  concat(assign(red_wine, "wine_type", broadcast(red_wine, Str("red"))),
               assign(white_wine, "wine_type", broadcast(white_wine, Str("red"))))

\* load_and_explore_data, lines 25-33: read, tag, combine
combine(rf, wf) ==
    LET red_wine == read_csv(rf)
        white_wine == read_csv(wf)
    IN  concat(assign(red_wine, "wine_type", broadcast(red_wine, Str("red"))),
               assign(white_wine, "wine_type", broadcast(white_wine, Str("white"))))

\* with a trailing reset_index(): the old index becomes a new first column
\* ('index', or 'level_0' when 'index' is taken) under a fresh 0..n-1 index
preprocess_data_reset_index(t) ==
    LET d == drop_duplicates(dropna(t))
        name == IF "index" \in Range(d.cols) THEN "level_0" ELSE "index"
    IN  [cols |-> <<name>> \o d.cols,
         rows |-> [i \in DOMAIN d.rows |->
                     [idx |-> i - 1,
                      cells |-> [c \in Range(d.cols) \cup {name} |->
                                   IF c = name THEN Num(d.rows[i].idx)
                                   ELSE d.rows[i].cells[c]]]]]

\* preprocess_data, lines 70-72
preprocess_data(t) == drop_duplicates(dropna(t))

\* KMeans(n_clusters).fit_predict(X): one label in 0..n_clusters-1 per row;
\* rows with the same feature values receive the same label.  Which
\* labelling the library returns is not fixed here: every one is allowed.
fit_predict(X, nc) ==
    LET points == {X.rows[i].cells : i \in DOMAIN X.rows}
    IN  {[i \in DOMAIN X.rows |-> g[X.rows[i].cells]] : g \in [points -> 0..(nc - 1)]}

\* the labels held in the 'cluster' column, by row position
labels_of(t) == [i \in DOMAIN t.rows |-> t.rows[i].cells["cluster"].num]

\* train_test_split(test_size=0.3): the test subset has ceil(0.3 * n) rows
n_test_of(n) == (TestNum * n + TestDen - 1) \div TestDen

\* ... and the training subset the remaining ones
n_train_of(n) == n - n_test_of(n)

\* the row orders the shuffle may produce (0-based positions): the rotations
\* of 0..n-1 and their reversals stand for the seeded random permutation
Shuffles(n) ==
    {[i \in 1..n |-> (i - 1 + r) % n] : r \in 0..(n - 1)}
    \cup {[i \in 1..n |-> (n - i + r) % n] : r \in 0..(n - 1)}

\* the test rows are the first n_test entries of the shuffled order
test_part(perm) == SubSeq(perm, 1, n_test_of(Len(perm)))

\* the training rows taken from the start of the shuffled order as well
train_part_from_start(perm) == SubSeq(perm, 1, n_train_of(Len(perm)))

\* the training rows are the n_train entries that follow them
train_part(perm) ==
    SubSeq(perm, n_test_of(Len(perm)) + 1,
           n_test_of(Len(perm)) + n_train_of(Len(perm)))

\* DataFrame.select_dtypes(include=[np.number]): columns without text cells
numeric_columns(t) ==
    SelectSeq(t.cols, LAMBDA c : \A i \in DOMAIN t.rows : "str" \notin DOMAIN t.rows[i].cells[c])

(* --------------------------- input files ------------------------------ *)

Header == features \o <<target>>

MkCells(a, q) ==
    [c \in Range(Header) |->
        IF c = target THEN Num(q) ELSE IF c = "alcohol" THEN Num(a) ELSE Num(0)]

\* 2 * NVals distinct complete lines
FullLines == [i \in 1..(2 * NVals) |-> MkCells((i - 1) \div 2, 5 + ((i - 1) % 2))]

Absent == [ok |-> FALSE, cols |-> <<>>, lines |-> <<>>]
HeaderOnly == [ok |-> TRUE, cols |-> Header, lines |-> <<>>]
Full == [ok |-> TRUE, cols |-> Header, lines |-> FullLines]
\* a repeated line and a line with a missing reading among the full lines
Dirty ==
    [ok |-> TRUE, cols |-> Header,
     lines |-> <<FullLines[1], [FullLines[2] EXCEPT !["alcohol"] = NaN]>> \o FullLines]
\* a file without the quality column
NoTarget ==
    [ok |-> TRUE, cols |-> features,
     lines |-> [i \in DOMAIN FullLines |-> [c \in Range(features) |-> FullLines[i][c]]]]
\* a file with one column more
ExtraColumn ==
    [ok |-> TRUE, cols |-> Header \o <<"id">>,
     lines |-> [i \in DOMAIN FullLines |->
                  [c \in Range(Header) \cup {"id"} |->
                     IF c = "id" THEN Num(i) ELSE FullLines[i][c]]]]

InputFiles == {Absent, HeaderOnly, Full, Dirty, NoTarget, ExtraColumn}

(* ------------------------------ steps --------------------------------- *)

Init ==
    /\ pc = "load"
    /\ red_csv \in InputFiles
    /\ white_csv \in InputFiles
    /\ data = EmptyTable
    /\ arg = EmptyTable
    /\ missing_values = None
    /\ duplicate_count = None
    /\ silhouette_avg = None
    /\ k = 0
    /\ sse = <<>>
    /\ fits = <<>>
    /\ train = <<>>
    /\ test = <<>>
    /\ mse = None
    /\ saved = <<>>
    /\ stdout = <<>>
    /\ ran = <<>>
    /\ failedAt = "none"

\* the step completes and control moves to step nxt
Goto(nxt) == pc' = nxt /\ ran' = Append(ran, pc) /\ failedAt' = failedAt

\* the exception is recorded but the step is entered again
Uncaught_resumed == pc' = pc /\ ran' = ran /\ failedAt' = pc

\* an exception escapes from the step: nothing catches it, the run ends
Uncaught == pc' = "failed" /\ ran' = Append(ran, pc) /\ failedAt' = pc

savefig(file, src) == saved' = Append(saved, [file |-> file, src |-> src])

print(line, value) == stdout' = Append(stdout, [line |-> line, value |-> value])

HasColumns(t, columns) == Range(columns) \subseteq Range(t.cols)

\* the counts taken after cleaning instead of on the table as loaded
Load_counts_after_cleaning ==
    /\ pc = "load"
    /\ IF red_csv.ok /\ white_csv.ok
       THEN /\ data' = combine(red_csv, white_csv)
            /\ missing_values' = Some(isnull_sum(preprocess_data(data')))
            /\ duplicate_count' = Some(duplicated_sum(preprocess_data(data')))
            /\ Goto("boxplot")
       ELSE /\ Uncaught
            /\ UNCHANGED <<data, missing_values, duplicate_count>>
    /\ UNCHANGED <<red_csv, white_csv, arg, silhouette_avg, k, sse, fits,
                   train, test, mse, saved, stdout>>

\* lines 25-43: read both files, tag, combine, count missing and duplicates
Load ==
    /\ pc = "load"
    /\ IF red_csv.ok /\ white_csv.ok
       THEN /\ data' = combine(red_csv, white_csv)
            /\ missing_values' = Some(isnull_sum(data'))
            /\ duplicate_count' = Some(duplicated_sum(data'))
            /\ Goto("boxplot")
       ELSE /\ Uncaught
            /\ UNCHANGED <<data, missing_values, duplicate_count>>
    /\ UNCHANGED <<red_csv, white_csv, arg, silhouette_avg, k, sse, fits,
                   train, test, mse, saved, stdout>>

\* lines 46-51
BoxPlot ==
    /\ pc = "boxplot"
    /\ savefig("boxplot_outliers.png", data)
    /\ Goto("countplot")
    /\ UNCHANGED <<red_csv, white_csv, data, arg, missing_values,
                   duplicate_count, silhouette_avg, k, sse, fits, train, test,
                   mse, stdout>>

\* lines 54-64
CountPlot ==
    /\ pc = "countplot"
    /\ savefig("countplot_wine_type.png", data)
    /\ Goto("print_missing")
    /\ UNCHANGED <<red_csv, white_csv, data, arg, missing_values,
                   duplicate_count, silhouette_avg, k, sse, fits, train, test,
                   mse, stdout>>

\* line 171
EmitMissing ==
    /\ pc = "print_missing"
    /\ print("Missing values", missing_values[1])
    /\ Goto("print_duplicates")
    /\ UNCHANGED <<red_csv, white_csv, data, arg, missing_values,
                   duplicate_count, silhouette_avg, k, sse, fits, train, test,
                   mse, saved>>

\* line 172
EmitDuplicates ==
    /\ pc = "print_duplicates"
    /\ print("Duplicate rows", duplicate_count[1])
    /\ Goto("correlation")
    /\ UNCHANGED <<red_csv, white_csv, data, arg, missing_values,
                   duplicate_count, silhouette_avg, k, sse, fits, train, test,
                   mse, saved>>

\* line 175, plot_correlation_matrix
PlotCorrelation ==
    /\ pc = "correlation"
    /\ savefig("correlation_heatmap.png", select(data, numeric_columns(data)))
    /\ Goto("preprocess")
    /\ UNCHANGED <<red_csv, white_csv, data, arg, missing_values,
                   duplicate_count, silhouette_avg, k, sse, fits, train, test,
                   mse, stdout>>

\* line 178
Preprocess ==
    /\ pc = "preprocess"
    /\ arg' = data
    /\ data' = preprocess_data(data)
    /\ Goto("histogram")
    /\ UNCHANGED <<red_csv, white_csv, missing_values, duplicate_count,
                   silhouette_avg, k, sse, fits, train, test, mse, saved,
                   stdout>>

\* line 181, plot_histogram: data['quality'] raises when the column is absent
PlotHistogram ==
    /\ pc = "histogram"
    /\ IF HasColumns(data, <<"quality">>)
       THEN savefig("histogram_quality.png", data) /\ Goto("cluster_fit")
       ELSE Uncaught /\ UNCHANGED saved
    /\ UNCHANGED <<red_csv, white_csv, data, arg, missing_values,
                   duplicate_count, silhouette_avg, k, sse, fits, train, test,
                   mse, stdout>>

\* lines 90-92: the k=3 fit writes the 'cluster' column; data[features]
\* raises on an absent column and KMeans on fewer rows than clusters
ClusterFit ==
    /\ pc = "cluster_fit"
    /\ IF HasColumns(data, features) /\ Len(data.rows) >= n_clusters
       THEN /\ \E lab \in fit_predict(select(data, features), n_clusters) :
                 data' = assign(data, "cluster",
                                [i \in DOMAIN data.rows |-> Num(lab[i])])
            /\ fits' = Append(fits, n_clusters)
            /\ arg' = data
            /\ Goto("silhouette")
       ELSE Uncaught /\ UNCHANGED <<data, fits, arg>>
    /\ UNCHANGED <<red_csv, white_csv, missing_values, duplicate_count,
                   silhouette_avg, k, sse, train, test, mse, saved, stdout>>

\* lines 93-96: silhouette_score needs 2 .. n-1 distinct labels
Silhouette ==
    /\ pc = "silhouette"
    /\ LET nl == Cardinality(Range(labels_of(data)))
       IN  IF 2 <= nl /\ nl <= Len(data.rows) - 1
           THEN /\ silhouette_avg' = Some(labels_of(data))
                /\ sse' = <<>>
                /\ k' = SweepFrom
                /\ Goto("sweep")
           ELSE Uncaught /\ UNCHANGED <<silhouette_avg, sse, k>>
    /\ UNCHANGED <<red_csv, white_csv, data, arg, missing_values,
                   duplicate_count, fits, train, test, mse, saved, stdout>>

\* the sweep calling fit_predict and storing the labels of every fit
SweepStep_relabel ==
    /\ pc = "sweep"
    /\ k < SweepStop
    /\ IF Len(data.rows) >= k
       THEN /\ \E lab \in fit_predict(select(data, features), k) :
                 data' = assign(data, "cluster",
                                [i \in DOMAIN data.rows |-> Num(lab[i])])
            /\ fits' = Append(fits, k)
            /\ sse' = Append(sse, [inertia_of |-> k])
            /\ k' = k + 1
            /\ Goto("sweep")
       ELSE Uncaught /\ UNCHANGED <<fits, sse, k, data>>
    /\ UNCHANGED <<red_csv, white_csv, arg, missing_values,
                   duplicate_count, silhouette_avg, train, test, mse, saved,
                   stdout>>

\* lines 97-100: one iteration of the sweep
SweepStep ==
    /\ pc = "sweep"
    /\ k < SweepStop
    /\ IF Len(data.rows) >= k
       THEN /\ fits' = Append(fits, k)
            /\ sse' = Append(sse, [inertia_of |-> k])
            /\ k' = k + 1
            /\ Goto("sweep")
       ELSE Uncaught /\ UNCHANGED <<fits, sse, k>>
    /\ UNCHANGED <<red_csv, white_csv, data, arg, missing_values,
                   duplicate_count, silhouette_avg, train, test, mse, saved,
                   stdout>>

\* lines 102-110: the sweep is over, plot the curve and return
ElbowPlot ==
    /\ pc = "sweep"
    /\ k = SweepStop
    /\ savefig("elbow_plot.png", sse)
    /\ Goto("print_silhouette")
    /\ UNCHANGED <<red_csv, white_csv, data, arg, missing_values,
                   duplicate_count, silhouette_avg, k, sse, fits, train, test,
                   mse, stdout>>

\* line 190
EmitSilhouette ==
    /\ pc = "print_silhouette"
    /\ print("Silhouette Score", silhouette_avg[1])
    /\ Goto("visualize")
    /\ UNCHANGED <<red_csv, white_csv, data, arg, missing_values,
                   duplicate_count, silhouette_avg, k, sse, fits, train, test,
                   mse, saved>>

\* the scatter plot saved under the name of the elbow plot
VisualizeClusters_wrong_name ==
    /\ pc = "visualize"
    /\ IF HasColumns(data, <<"alcohol", "volatile acidity", "cluster">>)
       THEN savefig("elbow_plot.png", data) /\ Goto("split")
       ELSE Uncaught /\ UNCHANGED saved
    /\ UNCHANGED <<red_csv, white_csv, data, arg, missing_values,
                   duplicate_count, silhouette_avg, k, sse, fits, train, test,
                   mse, stdout>>

\* line 193, visualize_clusters
VisualizeClusters ==
    /\ pc = "visualize"
    /\ IF HasColumns(data, <<"alcohol", "volatile acidity", "cluster">>)
       THEN savefig("cluster_plot.png", data) /\ Goto("split")
       ELSE Uncaught /\ UNCHANGED saved
    /\ UNCHANGED <<red_csv, white_csv, data, arg, missing_values,
                   duplicate_count, silhouette_avg, k, sse, fits, train, test,
                   mse, stdout>>

\* lines 132-134: the split raises when a subset would be empty
Split ==
    /\ pc = "split"
    /\ LET n == Len(data.rows)
       IN  IF /\ HasColumns(data, features \o <<target>>)
              /\ n_test_of(n) >= 1
              /\ n_train_of(n) >= 1
           THEN /\ \E perm \in Shuffles(n) :
                     /\ test' = test_part(perm)
                     /\ train' = train_part(perm)
                /\ arg' = data
                /\ Goto("fit")
           ELSE Uncaught /\ UNCHANGED <<test, train, arg>>
    /\ UNCHANGED <<red_csv, white_csv, data, missing_values, duplicate_count,
                   silhouette_avg, k, sse, fits, mse, saved, stdout>>

\* lines 135-138: fitting raises on a missing value
FitRegression ==
    /\ pc = "fit"
    /\ IF dropna(select(data, features \o <<target>>)).rows
              = select(data, features \o <<target>>).rows
       THEN mse' = Some([fit_on |-> train, eval_on |-> test]) /\ Goto("regplot")
       ELSE Uncaught /\ UNCHANGED mse
    /\ UNCHANGED <<red_csv, white_csv, data, arg, missing_values,
                   duplicate_count, silhouette_avg, k, sse, fits, train, test,
                   saved, stdout>>

\* lines 141-149
RegPlot ==
    /\ pc = "regplot"
    /\ IF HasColumns(data, <<"alcohol", "quality">>)
       THEN savefig("regression_line.png", data) /\ Goto("print_mse")
       ELSE Uncaught /\ UNCHANGED saved
    /\ UNCHANGED <<red_csv, white_csv, data, arg, missing_values,
                   duplicate_count, silhouette_avg, k, sse, fits, train, test,
                   mse, stdout>>

\* line 197
EmitMSE ==
    /\ pc = "print_mse"
    /\ print("Mean Squared Error (Regression)", mse[1])
    /\ Goto("done")
    /\ UNCHANGED <<red_csv, white_csv, data, arg, missing_values,
                   duplicate_count, silhouette_avg, k, sse, fits, train, test,
                   mse, saved>>

\* any library call of the step in progress may raise (an unwritable
\* working directory, no memory): the script has no try/except
Raise ==
    /\ pc \notin {"done", "failed"}
    /\ Uncaught
    /\ UNCHANGED <<red_csv, white_csv, data, arg, missing_values,
                   duplicate_count, silhouette_avg, k, sse, fits, train, test,
                   mse, saved, stdout>>

Next ==
    \/ Load
    \/ BoxPlot
    \/ CountPlot
    \/ EmitMissing
    \/ EmitDuplicates
    \/ PlotCorrelation
    \/ Preprocess
    \/ PlotHistogram
    \/ ClusterFit
    \/ Silhouette
    \/ SweepStep
    \/ ElbowPlot
    \/ EmitSilhouette
    \/ VisualizeClusters
    \/ Split
    \/ FitRegression
    \/ RegPlot
    \/ EmitMSE
    \/ Raise

Spec == Init /\ [][Next]_vars

(* ------------------- single functions on any table -------------------- *)

UnitCols == Header \o <<"wine_type">>

UnitCells(a, w, miss) ==
    [c \in Range(UnitCols) |->
        IF c = miss THEN NaN
        ELSE IF c = "wine_type" THEN Str(w)
        ELSE IF c = target THEN Num(5)
        ELSE IF c = "alcohol" THEN Num(a) ELSE Num(0)]

UnitCellSet ==
    {UnitCells(a, w, miss) :
        a \in 0..1, w \in {"red", "white"}, miss \in {"none", "alcohol", target}}

\* a frame with the default 0..n-1 index over the given cells
Frame(cells) ==
    [cols |-> UnitCols,
     rows |-> [i \in DOMAIN cells |-> [idx |-> i - 1, cells |-> cells[i]]]]

\* n distinct complete rows
CleanCells(n) == [i \in 1..n |-> UnitCells(i, "red", "none")]

\* 10 rows: eight distinct complete rows, one of them a second time, and
\* one row with a missing value
Example10 ==
    Frame(SubSeq(CleanCells(8), 1, 2)
          \o <<UnitCells(3, "red", "alcohol")>>
          \o SubSeq(CleanCells(8), 3, 6)
          \o <<CleanCells(8)[4]>>
          \o SubSeq(CleanCells(8), 7, 8))

UnitTables ==
    {Frame(cells) : cells \in UNION {[1..n -> UnitCellSet] : n \in 0..MaxUnitRows}}
    \cup {Frame(CleanCells(n)) : n \in 0..MaxSplitRows}
    \cup {Example10}

\* a call of preprocess_data or of perform_regression on any of the tables
InitFn ==
    /\ pc \in {"preprocess", "split"}
    /\ data \in UnitTables
    /\ red_csv = Absent
    /\ white_csv = Absent
    /\ arg = EmptyTable
    /\ missing_values = None
    /\ duplicate_count = None
    /\ silhouette_avg = None
    /\ k = 0
    /\ sse = <<>>
    /\ fits = <<>>
    /\ train = <<>>
    /\ test = <<>>
    /\ mse = None
    /\ saved = <<>>
    /\ stdout = <<>>
    /\ ran = <<>>
    /\ failedAt = "none"

NextFn ==
    \/ Preprocess
    \/ Split

SpecFn == InitFn /\ [][NextFn]_vars

(* ------------------------------ claims -------------------------------- *)

Complete(r) == \A c \in DOMAIN r.cells : ~isnull(r.cells[c])

\* the combined table the run loads from the two files
Raw == combine(red_csv, white_csv)

\* C1: when preprocess_data returns, its result has no row with a missing
\* value and no two rows equal in every column, every row of it is a row of
\* the input, and every complete row of the input occurs in it exactly once;
\* the 10-row example table yields 8 rows.
C1_CleanRows ==
    pc = "histogram" =>
        /\ \A i \in DOMAIN data.rows : Complete(data.rows[i])
        /\ \A i, j \in DOMAIN data.rows :
              data.rows[i].cells = data.rows[j].cells => i = j
        /\ \A i \in DOMAIN data.rows : \E j \in DOMAIN arg.rows : data.rows[i] = arg.rows[j]
        /\ \A j \in DOMAIN arg.rows :
              Complete(arg.rows[j]) =>
                 Cardinality({i \in DOMAIN data.rows :
                                 data.rows[i].cells = arg.rows[j].cells}) = 1
        /\ (arg = Example10 => Len(data.rows) = 8)

C1_Witness ==
    pc = "histogram" /\ arg = Example10 /\ Len(data.rows) = 8

\* C2: cleaning the result of preprocess_data again changes nothing: same
\* rows (with their index labels), same order, same columns.
C2_Idempotent ==
    pc = "histogram" => preprocess_data(data) = data

C2_Witness ==
    /\ pc = "histogram"
    /\ Len(arg.rows) = MaxUnitRows
    /\ Len(data.rows) = 1
    /\ preprocess_data(data) = data

\* C3: the result of preprocess_data has at most as many rows as its input
\* and the same columns in the same order.
C3_NoGrowth ==
    pc = "histogram" =>
        /\ Len(data.rows) <= Len(arg.rows)
        /\ data.cols = arg.cols

C3_Witness ==
    /\ pc = "histogram"
    /\ Len(data.rows) < Len(arg.rows)
    /\ \E i \in DOMAIN arg.rows : ~Complete(arg.rows[i])
    /\ data.cols = arg.cols

\* C5: for a table of n >= 2 rows the split succeeds, the two subsets are
\* disjoint, hold no row twice, together hold every row of the table, and
\* the test subset is within one row of 30% of n.
C5_Split ==
    LET n == Len(data.rows) IN
    /\ (failedAt = "split" => n < 2)
    /\ (pc = "fit" /\ n >= 2) =>
          /\ Range(train) \cap Range(test) = {}
          /\ Cardinality(Range(train)) = Len(train)
          /\ Cardinality(Range(test)) = Len(test)
          /\ Range(train) \cup Range(test) = 0..(n - 1)
          /\ Len(train) + Len(test) = n
          /\ TestDen * Len(test) - TestNum * n <= TestDen
          /\ TestNum * n - TestDen * Len(test) <= TestDen

C5_Witness ==
    pc = "fit" /\ Len(data.rows) = 7 /\ Len(test) = 3 /\ Len(train) = 4

\* the value of the wine_type column on every row
wine_types(t) == {t.rows[i].cells["wine_type"] : i \in DOMAIN t.rows}

SameColumns == red_csv.ok /\ white_csv.ok /\ Range(red_csv.cols) = Range(white_csv.cols)

ColumnsDiffer == red_csv.ok /\ white_csv.ok /\ Range(red_csv.cols) # Range(white_csv.cols)

\* what C4 holds of every load, whatever the files' row counts: all rows kept
\* in order, 'red' on the rows of the first file and 'white' on the others
RowsTagged ==
    LET nr == Len(red_csv.lines)
        nw == Len(white_csv.lines)
    IN  /\ Len(data.rows) = nr + nw
        /\ \A i \in 1..nr :
              /\ data.rows[i].cells["wine_type"] = Str("red")
              /\ \A c \in Range(red_csv.cols) : data.rows[i].cells[c] = red_csv.lines[i][c]
        /\ \A i \in 1..nw :
              /\ data.rows[nr + i].cells["wine_type"] = Str("white")
              /\ \A c \in Range(white_csv.cols) :
                    data.rows[nr + i].cells[c] = white_csv.lines[i][c]

\* C4 as stated: after loading two files with the same columns the row count
\* is the sum of the two files' row counts, the rows of the first file carry
\* 'red', those of the second 'white', and wine_type has exactly the two
\* distinct values 'red' and 'white'.
C4_Original ==
    (pc = "boxplot" /\ SameColumns) =>
        /\ RowsTagged
        /\ wine_types(data) = {Str("red"), Str("white")}

\* C4 amended: as above, but wine_type has exactly the two distinct values
\* only when both files have at least one row; a file with no rows
\* contributes no value.
C4_TaggedSum ==
    (pc = "boxplot" /\ SameColumns) =>
        /\ RowsTagged
        /\ wine_types(data) =
              {Str("red") : i \in DOMAIN red_csv.lines}
              \cup {Str("white") : i \in DOMAIN white_csv.lines}
        /\ (red_csv.lines # <<>> /\ white_csv.lines # <<>>
               => wine_types(data) = {Str("red"), Str("white")})

\* two files with a common line, both loaded in full
C4_Witness ==
    /\ pc = "boxplot"
    /\ SameColumns
    /\ \E i \in DOMAIN red_csv.lines : \E j \in DOMAIN white_csv.lines :
          red_csv.lines[i] = white_csv.lines[j]
    /\ Len(data.rows) = Len(red_csv.lines) + Len(white_csv.lines)
    /\ wine_types(data) = {Str("red"), Str("white")}

\* C6 as stated: with inconsistent column sets loading fails and no combined
\* table is produced.
C6_Original ==
    ColumnsDiffer => (pc \in {"load", "failed"} /\ failedAt \in {"none", "load"}
                      /\ data = EmptyTable)

\* C6 amended: differing column sets are no error at load.  When loading
\* returns, the combined table has the union of the columns (those of the
\* first file, then those only the second has, then wine_type where new),
\* every row of both files, and a missing value in each cell of a column
\* the row's file lacks.
C6_OuterJoin ==
    (pc = "boxplot" /\ ColumnsDiffer) =>
        /\ Range(data.cols) = Range(red_csv.cols) \cup Range(white_csv.cols) \cup {"wine_type"}
        /\ SubSeq(data.cols, 1, Len(red_csv.cols)) = red_csv.cols
        /\ RowsTagged
        /\ \A i \in 1..Len(red_csv.lines) :
              \A c \in Range(white_csv.cols) \ Range(red_csv.cols) :
                 isnull(data.rows[i].cells[c])
        /\ \A i \in 1..Len(white_csv.lines) :
              \A c \in Range(red_csv.cols) \ Range(white_csv.cols) :
                 isnull(data.rows[Len(red_csv.lines) + i].cells[c])

C6_Witness ==
    /\ pc = "boxplot"
    /\ ColumnsDiffer
    /\ failedAt = "none"
    /\ \E i \in DOMAIN data.rows : \E c \in Range(data.cols) : isnull(data.rows[i].cells[c])
    /\ Len(data.rows) = Len(red_csv.lines) + Len(white_csv.lines)

ImageFiles ==
    {"boxplot_outliers.png", "countplot_wine_type.png", "correlation_heatmap.png",
     "histogram_quality.png", "elbow_plot.png", "cluster_plot.png",
     "regression_line.png"}

SummaryLines ==
    {"Missing values", "Duplicate rows", "Silhouette Score",
     "Mean Squared Error (Regression)"}

TimesSaved(f) == Cardinality({i \in DOMAIN saved : saved[i].file = f})

TimesPrinted(l) == Cardinality({i \in DOMAIN stdout : stdout[i].line = l})

\* C7: a run that ends successfully has written each of the seven images
\* exactly once and nothing else, and has printed each of the four summary
\* lines exactly once.
C7_AllOutputsOnce ==
    pc = "done" =>
        /\ \A f \in ImageFiles : TimesSaved(f) = 1
        /\ Len(saved) = 7
        /\ \A l \in SummaryLines : TimesPrinted(l) = 1
        /\ Len(stdout) = 4

C7_Witness ==
    pc = "done" /\ failedAt = "none" /\ Len(saved) = 7 /\ Len(stdout) = 4

\* the steps of the run in program order
Steps ==
    <<"load", "boxplot", "countplot", "print_missing", "print_duplicates",
      "correlation", "preprocess", "histogram", "cluster_fit", "silhouette",
      "sweep", "print_silhouette", "visualize", "split", "fit", "regplot",
      "print_mse">>

StepNo(step) == CHOOSE i \in DOMAIN Steps : Steps[i] = step

\* the step that produces each output
ProducedAt(out) ==
    CASE out = "boxplot_outliers.png" -> "boxplot"
      [] out = "countplot_wine_type.png" -> "countplot"
      [] out = "Missing values" -> "print_missing"
      [] out = "Duplicate rows" -> "print_duplicates"
      [] out = "correlation_heatmap.png" -> "correlation"
      [] out = "histogram_quality.png" -> "histogram"
      [] out = "elbow_plot.png" -> "sweep"
      [] out = "Silhouette Score" -> "print_silhouette"
      [] out = "cluster_plot.png" -> "visualize"
      [] out = "regression_line.png" -> "regplot"
      [] out = "Mean Squared Error (Regression)" -> "print_mse"

\* no step starts after a later one, and only the sweep starts repeatedly
InOrder ==
    \A i, j \in DOMAIN ran :
        i < j => \/ StepNo(ran[i]) < StepNo(ran[j])
                 \/ (ran[i] = "sweep" /\ ran[j] = "sweep")

\* from a failure on: the run is at its end, the failed step is the last one
\* started, and the outputs are exactly those of the steps before it
HaltedAtFailure ==
    failedAt # "none" =>
        /\ pc = "failed"
        /\ ran # <<>> /\ ran[Len(ran)] = failedAt
        /\ InOrder
        /\ {saved[i].file : i \in DOMAIN saved}
              = {f \in ImageFiles : StepNo(ProducedAt(f)) < StepNo(failedAt)}
        /\ {stdout[i].line : i \in DOMAIN stdout}
              = {l \in SummaryLines : StepNo(ProducedAt(l)) < StepNo(failedAt)}

\* C8: once a step has failed the run has halted there: no later step has
\* started or produced an output, the outputs of the earlier steps are
\* there, and from then on nothing changes at all (no retry, no resumption).
C8_FailureHalts ==
    /\ []HaltedAtFailure
    /\ [][failedAt # "none" => UNCHANGED vars]_vars

C8_Witness ==
    /\ failedAt = "histogram"
    /\ pc = "failed"
    /\ Len(saved) = 3
    /\ Len(stdout) = 2

SavedSrc(f) == saved[CHOOSE i \in DOMAIN saved : saved[i].file = f].src

Printed(l) == stdout[CHOOSE i \in DOMAIN stdout : stdout[i].line = l].value

\* table t with the labels of the 'cluster' column of data
WithLabels(t) ==
    assign(t, "cluster", [i \in DOMAIN data.rows |-> data.rows[i].cells["cluster"]])

\* the part of C9 that holds of the code, for the table raw as loaded and
\* the table clean made of it by the Cleaner: the order of the steps, the
\* histogram drawn on clean, the Clusterer run on clean and the Regressor
\* on the table the Clusterer returned
OrderAndInputs(raw, clean) ==
    /\ InOrder
    /\ (pc = "done" =>
           ran = SubSeq(Steps, 1, 10) \o [i \in 1..(SweepStop - SweepFrom + 1) |-> "sweep"]
                 \o SubSeq(Steps, 12, 17))
    /\ (TimesSaved("histogram_quality.png") = 1 =>
           SavedSrc("histogram_quality.png") = clean)
    /\ (pc = "silhouette" => arg = clean /\ data = WithLabels(clean))
    /\ (TimesSaved("cluster_plot.png") = 1 =>
           SavedSrc("cluster_plot.png") = WithLabels(clean))
    /\ (pc = "fit" => arg = WithLabels(clean))
    /\ (TimesSaved("regression_line.png") = 1 =>
           SavedSrc("regression_line.png") = WithLabels(clean))

\* the statistics and plots of the Explorer made before the histogram are
\* those of table t
ExploredOn(t) ==
    /\ (TimesPrinted("Missing values") = 1 => Printed("Missing values") = isnull_sum(t))
    /\ (TimesPrinted("Duplicate rows") = 1 => Printed("Duplicate rows") = duplicated_sum(t))
    /\ (TimesSaved("boxplot_outliers.png") = 1 => SavedSrc("boxplot_outliers.png") = t)
    /\ (TimesSaved("countplot_wine_type.png") = 1 => SavedSrc("countplot_wine_type.png") = t)
    /\ (TimesSaved("correlation_heatmap.png") = 1 =>
           SavedSrc("correlation_heatmap.png") = select(t, numeric_columns(t)))

\* C9 as stated: the steps run in order, each on the table of the one
\* before, and every statistic and plot of the Explorer is computed on the
\* table produced by the Cleaner.
C9_Original ==
    red_csv.ok /\ white_csv.ok =>
        LET raw == Raw
            clean == preprocess_data(raw)
        IN  OrderAndInputs(raw, clean) /\ ExploredOn(clean)

\* C9 amended: the steps run strictly in program order; missing-value
\* counts, duplicate count, box plot, count plot and correlation matrix are
\* computed on the combined table as loaded, before cleaning; the histogram
\* is drawn on the cleaned table, the Clusterer runs on that table and the
\* Regressor on the table the Clusterer returned.
C9_ExploreBeforeClean ==
    red_csv.ok /\ white_csv.ok =>
        LET raw == Raw
            clean == preprocess_data(raw)
        IN  OrderAndInputs(raw, clean) /\ ExploredOn(raw)

C9_Witness ==
    /\ pc = "done"
    /\ preprocess_data(Raw) # Raw
    /\ Printed("Duplicate rows") > 0
    /\ SavedSrc("boxplot_outliers.png") = Raw
    /\ SavedSrc("histogram_quality.png") = preprocess_data(Raw)

AfterSweep == {"print_silhouette", "visualize", "split", "fit", "regplot", "print_mse", "done"}

\* C10: the 'cluster' column comes from the k=3 fit, which is the first fit,
\* and holds labels 0..2; once it is there the table never changes again
\* (neither the labels nor the feature columns), the silhouette score never
\* changes once computed, and when the sweep is over it has fitted once for
\* each k = 1..10 in turn and appended exactly 10 SSE values.
C10_SweepIsDiagnostic ==
    /\ [](HasColumns(data, <<"cluster">>) =>
             /\ fits # <<>> /\ fits[1] = n_clusters
             /\ \A i \in DOMAIN data.rows : labels_of(data)[i] \in 0..2)
    /\ [][HasColumns(data, <<"cluster">>) => data' = data]_vars
    /\ [][silhouette_avg # None => silhouette_avg' = silhouette_avg]_vars
    /\ [](pc \in AfterSweep =>
             /\ Len(sse) = 10
             /\ fits = <<n_clusters>> \o [i \in 1..10 |-> i]
             /\ silhouette_avg = Some(labels_of(data)))

C10_Witness ==
    /\ pc = "print_silhouette"
    /\ Len(sse) = 10
    /\ Len(fits) = 11
    /\ Cardinality(Range(labels_of(data))) = 3

====
